---------------------------- MODULE Spec2Model ----------------------------
(***************************************************************************)
(* Model of the produce quality-scoring pipeline of AgriMart               *)
(* (src/quality/services.py, class YOLOQualityAnalyzer).                   *)
(* Further specifications model the image views (src/api/views.py), the   *)
(* batch function, refunds (src/payments/services.py) and stock            *)
(* reservations (src/inventory/services.py).                               *)
(*                                                                         *)
(* Numbers.  Python floats are modelled as fixed-point integers:           *)
(*   - metric values, thresholds and scores are in hundredths              *)
(*     (85.0 is 8500, a confidence of 0.85 is 85 hundredths of 1);         *)
(*   - inside _calculate_overall_score the weighted sum is kept in units   *)
(*     of 1/6000 of a point, in which every weight of the code (0.1, 0.2,  *)
(*     1.5, 0.5 and the mean over the detections) is exact; round(x, 2)    *)
(*     is then Python's round-half-to-even onto hundredths.                *)
(*                                                                         *)
(* Images.  cv2 / numpy are an external library: an image is the record of *)
(* the raw statistics the library calls of each analyzer return for it     *)
(* (variance of the Laplacian, grey mean, histogram counts, contour area,  *)
(* ...).  Everything the repository's own code computes from those values  *)
(* is modelled below, operator by operator.                                *)
(***************************************************************************)
EXTENDS Integers, Sequences, FiniteSets, TLC

VARIABLES
    settings,              \* django.conf.settings: the overrides the analyzer reads
    pc,                    \* life cycle of one analyzer object
    model,                 \* self.model
    confidence_threshold,  \* self.confidence_threshold
    calls_made,            \* analyze_image calls made on this analyzer so far
    call,                  \* arguments and library behaviour of the analyze_image call
    steps,                 \* the steps of analyze_image the call has begun, in order
    result,                \* return value of analyze_image
    db,                    \* the tables of the web application
    exchange,              \* the last request of the image views and its response
    batch,                 \* the last batch_analyze_images call and what it returned
    payment,               \* a Payment object, its table row and its Refund records
    refund_call,           \* the last refund_payment call on it and what it returned
    inventory              \* an InventoryItem, its StockMovement records, the last call

analyzerVars ==
    <<settings, pc, model, confidence_threshold, calls_made, call, steps, result>>

webVars == <<db, exchange>>

serviceVars == <<batch, payment, refund_call, inventory>>

vars == <<analyzerVars, webVars, serviceVars>>

\* Longest list of boxes the detector returns in the model.
MaxBoxes == 2

\* Most analyze_image calls made on one analyzer (batch_analyze_images).
MaxCalls == 3

\* Most images stored by the upload view.
MaxUploads == 2
MaxBatch == 3
MaxAmount == 3
MaxRefundCalls == 4
MaxStock == 3
MaxMovements == 4

None == "None"

\* getattr(obj, name, default) on an object given as a record of its attributes.
getattr(obj, name, default) == IF name \in DOMAIN obj THEN obj[name] ELSE default

(***************************************************************************)
(* Small helpers                                                           *)
(***************************************************************************)
Max(a, b) == IF a >= b THEN a ELSE b
Min(a, b) == IF a <= b THEN a ELSE b
Abs(a) == IF a >= 0 THEN a ELSE -a

\* Python's round(x, 2) (round half to even) of x given in units of 1/6000,
\* x >= 0; the value is in hundredths.
round2(x) ==
    LET q == x \div 60
        r == x % 60
    IN  IF r < 30 THEN q
        ELSE IF r > 30 THEN q + 1
        ELSE IF q % 2 = 0 THEN q ELSE q + 1

(***************************************************************************)
(* __init__: the product standards table                                   *)
(***************************************************************************)
product_standards ==
    [ apple   |-> [size_range |-> <<5000, 50000>>,  shape_circularity |-> 70],
      tomato  |-> [size_range |-> <<3000, 30000>>,  shape_circularity |-> 80],
      banana  |-> [size_range |-> <<8000, 40000>>,  shape_circularity |-> 30],
      orange  |-> [size_range |-> <<4000, 35000>>,  shape_circularity |-> 75],
      cabbage |-> [size_range |-> <<10000, 80000>>, shape_circularity |-> 60],
      potato  |-> [size_range |-> <<2000, 25000>>,  shape_circularity |-> 50] ]

IsKnownProduct(product_type) == product_type \in DOMAIN product_standards

(***************************************************************************)
(* load_model: env is what the import and the construction of the detector *)
(* do in this process.                                                     *)
(***************************************************************************)
LoadOutcomes == {"loaded", "ImportError", "Exception"}

load_model(env) ==
    IF env = "loaded" THEN "yolo" ELSE "placeholder_model"

(***************************************************************************)
(* _detect_objects.  run is what the detector does on this image: the      *)
(* confidences of the boxes it yields, in order, and where (if anywhere)   *)
(* it raises: -1 never, 0 in self.model(image), i >= 1 while box i is      *)
(* being read (the boxes before i were already appended).                  *)
(***************************************************************************)
PlaceholderDetection == [class |-> "fruit", confidence |-> 85]

KeepBox(conf, threshold) == conf >= threshold

RECURSIVE CollectBoxes(_, _, _)
CollectBoxes(boxes, n, threshold) ==
    IF n = 0 THEN <<>>
    ELSE LET before == CollectBoxes(boxes, n - 1, threshold)
         IN  IF KeepBox(boxes[n], threshold)
             THEN Append(before, [class |-> "object", confidence |-> boxes[n]])
             ELSE before

_detect_objects(mdl, threshold, run) ==
    IF mdl = "placeholder_model"
    THEN <<PlaceholderDetection>>
    ELSE IF run.raises = 0 THEN <<>>
    ELSE IF run.raises > 0 THEN CollectBoxes(run.boxes, run.raises - 1, threshold)
    ELSE CollectBoxes(run.boxes, Len(run.boxes), threshold)

(***************************************************************************)
(* Image metric extractors                                                 *)
(***************************************************************************)
\* Faulty variant: the cap at 100 is missing.
_calculate_sharpness_uncapped(image) == image.laplacian_var \div 10

_calculate_sharpness(image) == Min(10000, image.laplacian_var \div 10)

_calculate_brightness(image) == image.gray_mean

_calculate_contrast(image) == image.gray_std

_calculate_saturation(image) == image.sat_mean

_calculate_noise_level(image) == image.noise_mean

_analyze_focus_quality(image) == image.grad_mean

_analyze_lighting_quality(image) ==
    LET distribution_score == (image.non_zero_bins * 10000) \div 256
        overexposed  == (image.overexposed_px * 10000) \div image.pixels
        underexposed == (image.underexposed_px * 10000) \div image.pixels
        exposure_penalty == Max(overexposed, underexposed)
    IN  Max(0, distribution_score - exposure_penalty)

\* Faulty variant: an image without foreground gets the default score.
_analyze_background_noforeground(image) ==
    IF image.background_px > 100 /\ image.background_px < image.pixels
    THEN Max(0, 10000 - image.background_std)
    ELSE 5000

\* Faulty variant: exactly 100 background pixels are already scored.
_analyze_background_atleast100(image) ==
    IF image.background_px > 0 /\ image.background_px >= 100
    THEN Max(0, 10000 - image.background_std)
    ELSE 5000

_analyze_background(image) ==
    IF image.background_px > 0 /\ image.background_px > 100
    THEN Max(0, 10000 - image.background_std)
    ELSE 5000

_analyze_color_accuracy(image, product_type) ==
    IF ~IsKnownProduct(product_type) THEN 7500
    ELSE LET color_accuracy == (image.ideal_px * 10000) \div image.pixels
         IN  Min(10000, color_accuracy * 2)

(***************************************************************************)
(* Shape / size analysis                                                   *)
(***************************************************************************)
\* 4 * pi * area / perimeter^2 in hundredths, pi taken as 355/113.
Circularity(area, perimeter) ==
    IF perimeter > 0
    THEN (1420 * area) \div ((113 * perimeter * perimeter) \div 100)
    ELSE 0

\* aspect_ratio = w / h if h > 0 else 0, in hundredths.
AspectRatio(w, h) == IF h > 0 THEN (100 * w) \div h ELSE 0

_advanced_size_analysis(image) ==
    IF image.contours = 0
    THEN [error |-> "No objects detected"]
    ELSE [area         |-> image.area,
          perimeter    |-> image.perimeter,
          aspect_ratio |-> AspectRatio(image.width, image.height),
          circularity  |-> Circularity(image.area, image.perimeter),
          bounding_box |-> [width |-> image.width, height |-> image.height]]

\* Faulty variant: a missing area is read as 0 (size_analysis.get('area', 0)).
_analyze_size_appropriateness_area0(image, product_type) ==
    IF ~IsKnownProduct(product_type) THEN 7500
    ELSE LET size_analysis == _advanced_size_analysis(image)
             min_size == product_standards[product_type].size_range[1]
             max_size == product_standards[product_type].size_range[2]
             area == IF "area" \in DOMAIN size_analysis THEN size_analysis.area ELSE 0
         IN  IF min_size <= area /\ area <= max_size THEN 10000
             ELSE IF area < min_size
             THEN Max(0, 10000 - ((min_size - area) * 10000) \div min_size)
             ELSE Max(0, 10000 - ((area - max_size) * 10000) \div max_size)

_analyze_size_appropriateness(image, product_type) ==
    IF ~IsKnownProduct(product_type) THEN 7500
    ELSE LET size_analysis == _advanced_size_analysis(image)
             min_size == product_standards[product_type].size_range[1]
             max_size == product_standards[product_type].size_range[2]
         IN  IF "area" \in DOMAIN size_analysis
             THEN LET area == size_analysis.area
                  IN  IF min_size <= area /\ area <= max_size THEN 10000
                      ELSE IF area < min_size
                      THEN Max(0, 10000 - ((min_size - area) * 10000) \div min_size)
                      ELSE Max(0, 10000 - ((area - max_size) * 10000) \div max_size)
             ELSE 5000

_analyze_shape_regularity(image, product_type) ==
    IF ~IsKnownProduct(product_type) THEN 7500
    ELSE LET size_analysis == _advanced_size_analysis(image)
         IN  IF "circularity" \in DOMAIN size_analysis
             THEN LET expected_circularity ==
                          product_standards[product_type].shape_circularity
                      deviation == Abs(size_analysis.circularity - expected_circularity)
                  IN  Max(0, 10000 - deviation * 100)
             ELSE 5000

(***************************************************************************)
(* _comprehensive_quality_analysis: the metrics map                        *)
(***************************************************************************)
ImageMetrics(image) ==
    [ sharpness             |-> _calculate_sharpness(image),
      brightness            |-> _calculate_brightness(image),
      contrast              |-> _calculate_contrast(image),
      saturation            |-> _calculate_saturation(image),
      noise_level           |-> _calculate_noise_level(image),
      focus_quality         |-> _analyze_focus_quality(image),
      lighting_quality      |-> _analyze_lighting_quality(image),
      background_uniformity |-> _analyze_background(image) ]

ProductMetrics(image, product_type) ==
    [ color_accuracy       |-> _analyze_color_accuracy(image, product_type),
      size_appropriateness |-> _analyze_size_appropriateness(image, product_type),
      shape_regularity     |-> _analyze_shape_regularity(image, product_type) ]

_comprehensive_quality_analysis(image, product_type) ==
    IF IsKnownProduct(product_type)
    THEN ImageMetrics(image) @@ ProductMetrics(image, product_type)
    ELSE ImageMetrics(image)

(***************************************************************************)
(* _calculate_overall_score.  Terms and total are in units of 1/6000.      *)
(***************************************************************************)
\* Faulty variant: the brightness score is not floored at 0.
BrightnessTerm_nofloor(metrics) ==
    6 * (10000 - Abs(metrics.brightness - 13000) * 2)

BrightnessTerm(metrics) ==
    LET brightness_score == 10000 - Abs(metrics.brightness - 13000) * 2
    IN  6 * Max(0, brightness_score)

\* 100 - |contrast - 65| * 1.5, kept in units of 1/200 before the weight.
ContrastTerm(metrics) ==
    LET contrast_score == 20000 - Abs(metrics.contrast - 6500) * 3
    IN  3 * Max(0, contrast_score)

Weighted(metrics, key, weight) ==
    IF key \in DOMAIN metrics THEN weight * metrics[key] ELSE 0

RECURSIVE SumConfidence(_)
SumConfidence(objects) ==
    IF objects = <<>> THEN 0
    ELSE Head(objects).confidence + SumConfidence(Tail(objects))

\* np.mean(confidences) * 100 * 0.1
DetectionTerm(objects) ==
    IF objects # <<>>
    THEN (SumConfidence(objects) * 600) \div Len(objects)
    ELSE 0

\* Faulty variant: a fixed penalty of 5 points once the noise is above 20.
NoisePenalty_fixed(metrics) ==
    IF "noise_level" \in DOMAIN metrics /\ metrics.noise_level > 2000
    THEN 30000
    ELSE 0

NoisePenalty(metrics) ==
    IF "noise_level" \in DOMAIN metrics /\ metrics.noise_level > 2000
    THEN (metrics.noise_level - 2000) * 30
    ELSE 0

\* Faulty variant: the weights of the components that are present are scaled
\* up to a total of 1.
TotalScore_renormalized(metrics, objects) ==
    LET present == 6 * Cardinality(DOMAIN metrics \cap
                           {"sharpness", "brightness", "contrast",
                            "lighting_quality", "size_appropriateness",
                            "shape_regularity", "background_uniformity"})
                   + (IF "color_accuracy" \in DOMAIN metrics THEN 12 ELSE 0)
                   + (IF objects # <<>> THEN 6 ELSE 0)
        total == Weighted(metrics, "sharpness", 6)
                 + (IF "brightness" \in DOMAIN metrics
                    THEN BrightnessTerm(metrics) ELSE 0)
                 + (IF "contrast" \in DOMAIN metrics
                    THEN ContrastTerm(metrics) ELSE 0)
                 + Weighted(metrics, "lighting_quality", 6)
                 + Weighted(metrics, "color_accuracy", 12)
                 + Weighted(metrics, "size_appropriateness", 6)
                 + Weighted(metrics, "shape_regularity", 6)
                 + DetectionTerm(objects)
                 + Weighted(metrics, "background_uniformity", 6)
    IN  (total * 60) \div present

TotalScore(metrics, objects) ==
      Weighted(metrics, "sharpness", 6)
    + (IF "brightness" \in DOMAIN metrics THEN BrightnessTerm(metrics) ELSE 0)
    + (IF "contrast" \in DOMAIN metrics THEN ContrastTerm(metrics) ELSE 0)
    + Weighted(metrics, "lighting_quality", 6)
    + Weighted(metrics, "color_accuracy", 12)
    + Weighted(metrics, "size_appropriateness", 6)
    + Weighted(metrics, "shape_regularity", 6)
    + DetectionTerm(objects)
    + Weighted(metrics, "background_uniformity", 6)

\* Faulty variant: the floor at 0 is missing.
ClampScore_nofloor(x) == Min(600000, x)

ClampScore(x) == Max(0, Min(600000, x))

_calculate_overall_score(metrics, objects) ==
    round2(ClampScore(TotalScore(metrics, objects) - NoisePenalty(metrics)))

(***************************************************************************)
(* _get_quality_grade.  A grade table is the dict in insertion order, as   *)
(* a sequence of <<grade, min_score>> entries.                             *)
(***************************************************************************)
DefaultGrades ==
    << [grade |-> "A", min_score |-> 8500],
       [grade |-> "B", min_score |-> 7000],
       [grade |-> "C", min_score |-> 5000],
       [grade |-> "D", min_score |-> 0] >>

ConfiguredGrades(stg) == getattr(stg, "QUALITY_GRADES", DefaultGrades)

\* Every entry has the key the sort reads: x[1]['min_score'] raises KeyError
\* on any entry without it.
WellFormed(grades) ==
    \A i \in 1..Len(grades) : "min_score" \in DOMAIN grades[i]

\* str(KeyError('min_score'))
KeyErrorMinScore == "'min_score'"

\* sorted(..., key=min_score, reverse=True): descending, equal keys keep
\* their order.
RECURSIVE SortedDescending(_)
SortedDescending(grades) ==
    IF grades = <<>> THEN <<>>
    ELSE LET top == CHOOSE i \in 1..Len(grades) :
                        /\ \A j \in 1..Len(grades) :
                               grades[j].min_score <= grades[i].min_score
                        /\ \A j \in 1..(i - 1) :
                               grades[j].min_score < grades[i].min_score
             rest == [k \in 1..(Len(grades) - 1) |->
                         IF k < top THEN grades[k] ELSE grades[k + 1]]
         IN  <<grades[top]>> \o SortedDescending(rest)

\* Faulty variant: the threshold itself is not met (> for >=).
Meets_strict(score, min_score) == score > min_score

Meets(score, min_score) == score >= min_score

RECURSIVE FirstMatch(_, _)
FirstMatch(sorted, score) ==
    IF sorted = <<>> THEN "D"
    ELSE IF Meets(score, Head(sorted).min_score) THEN Head(sorted).grade
    ELSE FirstMatch(Tail(sorted), score)

_get_quality_grade(score, stg) ==
    FirstMatch(SortedDescending(ConfiguredGrades(stg)), score)

(***************************************************************************)
(* _detect_defects: four detectors, their records concatenated.  Areas are *)
(* in pixels; hue_std, blemish_pct and texture_energy are in hundredths;   *)
(* gabor_response holds the filter response of equal shares of the image.  *)
(***************************************************************************)
\* Faulty variant: every dark contour counts, also those of area <= 100.
Significant_all(area) == area > 0

\* if area > 100
Significant(area) == area > 100

RECURSIVE SumAreas(_)
SumAreas(areas) ==
    IF areas = <<>> THEN 0 ELSE Head(areas) + SumAreas(Tail(areas))

_detect_dark_spots(image) ==
    LET significant == SelectSeq(image.dark_areas, Significant)
        significant_spots == Len(significant)
        total_dark_area == SumAreas(significant)
    IN  IF significant_spots > 0
        THEN << [type       |-> "dark_spots",
                 severity   |-> IF significant_spots > 5 THEN "high" ELSE "medium",
                 count      |-> significant_spots,
                 total_area |-> total_dark_area] >>
        ELSE <<>>

_detect_color_inconsistencies(image) ==
    IF image.hue_std > 3000
    THEN << [type |-> "color_inconsistency", severity |-> "medium",
             variance |-> image.hue_std] >>
    ELSE <<>>

_detect_surface_blemishes(image) ==
    IF image.blemish_pct > 500
    THEN << [type       |-> "surface_blemishes",
             severity   |-> IF image.blemish_pct > 1500 THEN "high" ELSE "medium",
             percentage |-> image.blemish_pct] >>
    ELSE <<>>

\* gabor_response**2: cv2.filter2D stores the response as uint8, and numpy
\* squares a uint8 array in uint8, so each square wraps modulo 256.
Square(v) == (v * v) % 256

RECURSIVE SumSquares(_)
SumSquares(response) ==
    IF response = <<>> THEN 0
    ELSE Square(Head(response)) + SumSquares(Tail(response))

\* np.mean(gabor_response**2)
texture_energy(image) ==
    (100 * SumSquares(image.gabor_response)) \div Len(image.gabor_response)

_detect_texture_issues(image) ==
    IF texture_energy(image) > 100000
    THEN << [type |-> "texture_irregularity", severity |-> "low",
             energy |-> texture_energy(image)] >>
    ELSE <<>>

_detect_defects(image) ==
    _detect_dark_spots(image) \o _detect_color_inconsistencies(image)
        \o _detect_surface_blemishes(image) \o _detect_texture_issues(image)

(***************************************************************************)
(* _advanced_color_analysis.  clustering is what cv2.kmeans (random        *)
(* initial centres, no seed set by the repository) returns on this call:   *)
(* the clusters in label order, each with its centre and its share of the  *)
(* pixels in hundredths of a percent, or KMeansRaises.                     *)
(***************************************************************************)
KMeansRaises == [raises |-> TRUE]

\* sorted(dominant_colors, key=percentage, reverse=True)
RECURSIVE SortedByPercentage(_)
SortedByPercentage(colors) ==
    IF colors = <<>> THEN <<>>
    ELSE LET top == CHOOSE i \in 1..Len(colors) :
                        /\ \A j \in 1..Len(colors) :
                               colors[j].percentage <= colors[i].percentage
                        /\ \A j \in 1..(i - 1) :
                               colors[j].percentage < colors[i].percentage
             rest == [k \in 1..(Len(colors) - 1) |->
                         IF k < top THEN colors[k] ELSE colors[k + 1]]
         IN  <<colors[top]>> \o SortedByPercentage(rest)

_extract_dominant_colors(clustering) ==
    IF clustering = KMeansRaises THEN <<>>
    ELSE SortedByPercentage(clustering.clusters)

_advanced_color_analysis(image, clustering) ==
    [ hsv_analysis    |-> [mean_saturation |-> image.sat_mean,
                           mean_value      |-> image.val_mean,
                           hue_std         |-> image.hue_std],
      dominant_colors |-> _extract_dominant_colors(clustering) ]

(***************************************************************************)
(* _analyze_freshness.  The score is kept in units of 1/1000 of a point.   *)
(***************************************************************************)
_analyze_freshness(image) ==
    LET color_vibrancy == image.sat_mean
        brightness == image.val_mean
        color_uniformity == 10000 - image.hue_std
        brown_percentage == (image.brown_px * 10000) \div image.pixels
        freshness_score ==
              color_vibrancy * 3 + brightness * 2 + color_uniformity * 3
            + Max(0, 10000 - brown_percentage * 2) * 2
    IN  [ color_vibrancy      |-> color_vibrancy,
          brightness          |-> brightness,
          color_uniformity    |-> color_uniformity,
          browning_percentage |-> brown_percentage,
          freshness_score     |-> Min(100000, Max(0, freshness_score)) ]

(***************************************************************************)
(* _generate_recommendations                                               *)
(***************************************************************************)
Advice(cond, lines) == IF cond THEN lines ELSE <<>>

_generate_recommendations(metrics) ==
       Advice(getattr(metrics, "sharpness", 0) < 5000,
              <<"Use a tripod or stabilize camera to reduce blur",
                "Ensure proper focus on the main subject">>)
    \o Advice(getattr(metrics, "lighting_quality", 0) < 6000,
              <<"Improve lighting conditions - use natural light or additional lighting",
                "Avoid harsh shadows and direct flash">>)
    \o Advice(getattr(metrics, "background_uniformity", 0) < 7000,
              <<"Use a plain, neutral background",
                "Remove clutter from the background">>)
    \o Advice(getattr(metrics, "color_accuracy", 0) < 7000,
              <<"Ensure accurate color representation",
                "Check white balance settings">>)
    \o Advice(getattr(metrics, "noise_level", 0) > 2000,
              <<"Reduce ISO settings to minimize noise",
                "Use better lighting instead of high ISO">>)
    \o <<"Center the product in the frame",
         "Ensure the entire product is visible",
         "Take multiple angles for better representation">>

(***************************************************************************)
(* analyze_image.  c is the call: what cv2.imread returns (NoImage for its  *)
(* None), the product type, what the detector does on the image,           *)
(* and fault, the analyzer without a handler of its own in which the       *)
(* library raises on this image ("none" when none does).                   *)
(***************************************************************************)
NoImage == [decoded |-> FALSE]

\* Faulty variant: the failure is reported inside a result with default score and
\* grade.
CouldNotLoad_partial ==
    [error |-> "Could not load image", overall_score |-> 0, grade |-> "D"]

CouldNotLoad == [error |-> "Could not load image"]

\* Faulty variant: the exception leaves analyze_image instead of being returned.
Unhandled_raised(fault) == [raised |-> fault]

\* except Exception as e: return {'error': str(e)}
Unhandled(fault) == [error |-> fault]

AnalysisResult(stg, mdl, threshold, c) ==
    LET objects == _detect_objects(mdl, threshold, c.run)
        quality_metrics == _comprehensive_quality_analysis(c.image, c.product_type)
        overall_score == _calculate_overall_score(quality_metrics, objects)
    IN  [ overall_score        |-> overall_score,
          grade                |-> _get_quality_grade(overall_score, stg),
          objects_detected     |-> objects,
          quality_metrics      |-> quality_metrics,
          defects              |-> _detect_defects(c.image),
          color_analysis       |-> _advanced_color_analysis(c.image, c.kmeans),
          size_analysis        |-> _advanced_size_analysis(c.image),
          freshness_indicators |-> _analyze_freshness(c.image),
          recommendations      |-> _generate_recommendations(quality_metrics),
          timestamp            |-> c.now ]

\* The library raises while the metrics are computed: in a metric extractor,
\* or in the size analysis that the size and shape metrics of a known
\* product run.
RaisesInMetrics(c) ==
    \/ c.fault = "quality_metrics"
    \/ c.fault = "size_analysis" /\ IsKnownProduct(c.product_type)

\* Faulty variant: the overall score moves with the share of the largest colour
\* cluster.
analyze_image_clustered(stg, mdl, threshold, c) ==
    IF c.image = NoImage THEN CouldNotLoad
    ELSE IF RaisesInMetrics(c) THEN Unhandled(c.fault)
    ELSE IF ~WellFormed(ConfiguredGrades(stg)) THEN Unhandled(KeyErrorMinScore)
    ELSE IF c.fault # "none" THEN Unhandled(c.fault)
    ELSE LET r == AnalysisResult(stg, mdl, threshold, c)
             share == IF r.color_analysis.dominant_colors = <<>> THEN 0
                      ELSE r.color_analysis.dominant_colors[1].percentage \div 100
         IN  [r EXCEPT !.overall_score = Min(10000, @ + share)]

\* The values of the result are evaluated in the order the dict literal
\* lists them: score and grade first, then the remaining analyzers.
analyze_image(stg, mdl, threshold, c) ==
    IF c.image = NoImage THEN CouldNotLoad
    ELSE IF RaisesInMetrics(c) THEN Unhandled(c.fault)
    ELSE IF ~WellFormed(ConfiguredGrades(stg)) THEN Unhandled(KeyErrorMinScore)
    ELSE IF c.fault # "none" THEN Unhandled(c.fault)
    ELSE AnalysisResult(stg, mdl, threshold, c)

\* The steps of analyze_image in program order, and those a call begins
\* before it returns.
StepsBeforeGrade ==
    <<"imread", "image_info", "detect_objects", "quality_metrics">>

StepsOfGrade == <<"overall_score", "grade">>

StepsAfterGrade ==
    <<"defects", "color_analysis", "size_analysis", "freshness",
      "recommendations", "timestamp">>

StepsRun(stg, c) ==
    IF c.image = NoImage THEN <<"imread">>
    ELSE IF RaisesInMetrics(c) THEN StepsBeforeGrade
    ELSE IF ~WellFormed(ConfiguredGrades(stg))
    THEN StepsBeforeGrade \o StepsOfGrade
    ELSE IF c.fault # "none"
    THEN LET last == CHOOSE i \in 1..Len(StepsAfterGrade) :
                         StepsAfterGrade[i] = c.fault
         IN  StepsBeforeGrade \o StepsOfGrade \o SubSeq(StepsAfterGrade, 1, last)
    ELSE StepsBeforeGrade \o StepsOfGrade \o StepsAfterGrade

\* Faulty variant: the threshold is lowered to the first box the detector gave.
SelfAfterAnalyzeImage_adaptive(mdl, threshold, c) ==
    [ model |-> mdl,
      confidence_threshold |->
          IF c.run.boxes # <<>> THEN Min(threshold, c.run.boxes[1]) ELSE threshold ]

\* analyze_image assigns no attribute of self: the analyzer's attributes
\* after the call.
SelfAfterAnalyzeImage(mdl, threshold, c) ==
    [ model |-> mdl, confidence_threshold |-> threshold ]

(***************************************************************************)
(* The leaf analyzers of analyze_image, run one after the other on the     *)
(* same image array.  Each reads the array and the analyzer's attributes   *)
(* and returns its value; none assigns into the array.                     *)
(***************************************************************************)
SourceOrder ==
    <<"objects", "quality_metrics", "defects", "color_analysis",
      "size_analysis", "freshness">>

LeafValue(leaf, image, mdl, threshold, c) ==
    CASE leaf = "objects"         -> _detect_objects(mdl, threshold, c.run)
      [] leaf = "quality_metrics" -> _comprehensive_quality_analysis(image, c.product_type)
      [] leaf = "defects"         -> _detect_defects(image)
      [] leaf = "color_analysis"  -> _advanced_color_analysis(image, c.kmeans)
      [] leaf = "size_analysis"   -> _advanced_size_analysis(image)
      [] leaf = "freshness"       -> _analyze_freshness(image)

\* Faulty variant: the defect detector smooths the array in place.
ImageAfterLeaf_inplace(leaf, image) ==
    IF leaf = "defects"
    THEN [image EXCEPT !.laplacian_var = 0, !.dark_areas = <<>>]
    ELSE image

\* The image array after a leaf has run on it.
ImageAfterLeaf(leaf, image) == image

RECURSIVE RunLeaves(_, _, _, _, _)
RunLeaves(order, image, mdl, threshold, c) ==
    IF order = <<>> THEN [k \in {} |-> 0]
    ELSE (Head(order) :> LeafValue(Head(order), image, mdl, threshold, c))
         @@ RunLeaves(Tail(order), ImageAfterLeaf(Head(order), image),
                      mdl, threshold, c)

\* The result analyze_image assembles when its leaves run in the given order.
AnalysisInOrder(order, stg, mdl, threshold, c) ==
    LET out == RunLeaves(order, c.image, mdl, threshold, c)
        overall_score == _calculate_overall_score(out.quality_metrics, out.objects)
    IN  [ overall_score        |-> overall_score,
          grade                |-> _get_quality_grade(overall_score, stg),
          objects_detected     |-> out.objects,
          quality_metrics      |-> out.quality_metrics,
          defects              |-> out.defects,
          color_analysis       |-> out.color_analysis,
          size_analysis        |-> out.size_analysis,
          freshness_indicators |-> out.freshness,
          recommendations      |-> _generate_recommendations(out.quality_metrics),
          timestamp            |-> c.now ]

(***************************************************************************)
(* Inputs.  The raw statistics of an image are drawn from samples that lie *)
(* on both sides of the branches and clamps of the code above.  All values *)
(* are in hundredths except pixel counts, bins and contour geometry.       *)
(***************************************************************************)
ImagePixels == 300 * 300

\* Grey-level statistics: mean, standard deviation and the 256-bin
\* histogram (non-empty bins, pixels in bins 240.. and in bins ..14), the
\* mean of the HSV value channel, and the areas of the contours of the
\* dark mask (grey <= 60).
Tones ==
    { [gray_mean |-> 13000, gray_std |-> 6500, non_zero_bins |-> 256,
       overexposed_px |-> 5625, underexposed_px |-> 900,
       val_mean |-> 15000, dark_areas |-> <<40, 12>>],
      [gray_mean |-> 12750, gray_std |-> 12750, non_zero_bins |-> 2,
       overexposed_px |-> 45000, underexposed_px |-> 45000,
       val_mean |-> 12750, dark_areas |-> <<44551>>],
      [gray_mean |-> 22000, gray_std |-> 3000, non_zero_bins |-> 96,
       overexposed_px |-> 30000, underexposed_px |-> 0,
       val_mean |-> 23000, dark_areas |-> <<>>] }

\* Edge strength: variance of the Laplacian, mean Sobel gradient and the
\* 8-bit Gabor response (saturated at 255 on the bright parts).
Edges ==
    { [laplacian_var |-> 12000, grad_mean |-> 900,
       gabor_response |-> <<255, 255, 255, 30>>],
      [laplacian_var |-> 250000, grad_mean |-> 30000,
       gabor_response |-> <<255, 35, 100, 221>>] }

\* Colour: mean saturation, pixels inside the product's ideal range,
\* standard deviation of the hue, share of pixels with extreme a/b in LAB,
\* pixels in the brown range.
Colours ==
    { [sat_mean |-> 0, ideal_px |-> 0, hue_std |-> 0,
       blemish_pct |-> 0, brown_px |-> 0],
      [sat_mean |-> 2000, ideal_px |-> 0, hue_std |-> 1200,
       blemish_pct |-> 300, brown_px |-> 0],
      [sat_mean |-> 21000, ideal_px |-> 54000, hue_std |-> 3500,
       blemish_pct |-> 6000, brown_px |-> 9000] }

NoiseMeans == {0, 2000, 4555, 4557, 12700}

\* What the Canny edges give: the external contours (how many, area and
\* perimeter of the largest, width and height of its bounding rectangle),
\* and the background left by the dilated edge mask (pixels, mean of the
\* per-channel standard deviations).
Segmentations ==
    { [contours |-> 0, area |-> 0, perimeter |-> 0, width |-> 0, height |-> 0,
       background_px |-> ImagePixels, background_std |-> 300],
      [contours |-> 1, area |-> 20000, perimeter |-> 600,
       width |-> 200, height |-> 100,
       background_px |-> 40000, background_std |-> 0],
      [contours |-> 1, area |-> 20000, perimeter |-> 600,
       width |-> 100, height |-> 200,
       background_px |-> 40000, background_std |-> 8000],
      [contours |-> 3, area |-> 2500, perimeter |-> 200,
       width |-> 50, height |-> 50,
       background_px |-> 101, background_std |-> 1500],
      [contours |-> 3, area |-> 2500, perimeter |-> 200,
       width |-> 50, height |-> 50,
       background_px |-> 100, background_std |-> 1500],
      [contours |-> 5, area |-> 0, perimeter |-> 400,
       width |-> 200, height |-> 1,
       background_px |-> 30000, background_std |-> 2000],
      [contours |-> 2, area |-> 80000, perimeter |-> 1100,
       width |-> 300, height |-> 280,
       background_px |-> 0, background_std |-> 0] }

\* The mean absolute difference to the blurred image is at most twice the
\* standard deviation; an image without Canny edges is smooth; an image of
\* pure black and pure white (two grey levels, 0 and 255) has no colour,
\* and only that one is taken without colour.
Consistent(i) ==
    /\ i.noise_mean <= 2 * i.gray_std
    /\ i.contours = 0 => i.laplacian_var <= 12000 /\ i.noise_mean <= 2000
    /\ i.non_zero_bins = 2 <=> i.sat_mean = 0

TexturedImages ==
    { i \in { [decoded |-> TRUE, pixels |-> ImagePixels] @@ t @@ e @@ col
                  @@ [noise_mean |-> n] @@ g :
                t \in Tones, e \in Edges, col \in Colours, n \in NoiseMeans,
                g \in Segmentations } :
        Consistent(i) }

\* A solid colour: one grey level, no edges, the whole image is background.
\* White, black (one dark contour, the whole image), mid grey, and a
\* saturated red that lies inside the ideal range of the product.
FlatTones ==
    { [gray_mean |-> 25500, overexposed_px |-> ImagePixels, underexposed_px |-> 0,
       sat_mean |-> 0, ideal_px |-> 0, val_mean |-> 25500, dark_areas |-> <<>>,
       blemish_pct |-> 0, gabor_response |-> <<255, 255, 255, 255>>],
      [gray_mean |-> 0, overexposed_px |-> 0, underexposed_px |-> ImagePixels,
       sat_mean |-> 0, ideal_px |-> 0, val_mean |-> 0, dark_areas |-> <<89401>>,
       blemish_pct |-> 0, gabor_response |-> <<0, 0, 0, 0>>],
      [gray_mean |-> 12800, overexposed_px |-> 0, underexposed_px |-> 0,
       sat_mean |-> 0, ideal_px |-> 0, val_mean |-> 12800, dark_areas |-> <<>>,
       blemish_pct |-> 0, gabor_response |-> <<255, 255, 255, 255>>],
      [gray_mean |-> 9300, overexposed_px |-> 0, underexposed_px |-> 0,
       sat_mean |-> 21700, ideal_px |-> ImagePixels, val_mean |-> 20000,
       dark_areas |-> <<>>, blemish_pct |-> 10000, gabor_response |-> <<255, 255, 255, 255>>] }

FlatImages ==
    { [decoded |-> TRUE, pixels |-> ImagePixels, gray_std |-> 0,
       non_zero_bins |-> 1, laplacian_var |-> 0, grad_mean |-> 0,
       noise_mean |-> 0, contours |-> 0, area |-> 0, perimeter |-> 0,
       width |-> 0, height |-> 0,
       background_px |-> ImagePixels, background_std |-> 0,
       hue_std |-> 0, brown_px |-> 0] @@ t :
        t \in FlatTones }

\* Produce on a light background with dark patches and blemishes: the
\* contour areas of the dark mask lie around the 100 px filter and the
\* count around 5, hue spread and blemish share around their thresholds.
DarkPatches ==
    { <<100>>, <<101>>, <<0, 99, 100>>, <<150, 60, 4000>>,
      <<200, 300, 400, 500, 600>>,
      <<200, 300, 400, 500, 600, 700>>,
      <<200, 300, 90, 400, 500, 100, 600, 700>> }

Blemishes ==
    { [hue_std |-> 3000, blemish_pct |-> 500],
      [hue_std |-> 3001, blemish_pct |-> 501],
      [hue_std |-> 3001, blemish_pct |-> 1500],
      [hue_std |-> 3000, blemish_pct |-> 1501] }

SpottedImages ==
    { [dark_areas |-> d] @@ b @@
      [decoded |-> TRUE, pixels |-> ImagePixels,
       gray_mean |-> 17000, gray_std |-> 6000, non_zero_bins |-> 200,
       overexposed_px |-> 9000, underexposed_px |-> 1800, val_mean |-> 18000,
       laplacian_var |-> 90000, grad_mean |-> 2500, gabor_response |-> <<255, 35, 35, 16>>,
       sat_mean |-> 9000, ideal_px |-> 30000, brown_px |-> 2000,
       noise_mean |-> 600, contours |-> 4, area |-> 31000, perimeter |-> 640,
       width |-> 180, height |-> 220,
       background_px |-> 35000, background_std |-> 900] :
        d \in DarkPatches, b \in Blemishes }

Images == TexturedImages \cup FlatImages \cup SpottedImages

\* The images on which every clustering and clock reading is tried, and
\* those on which every detector run and every fault is.
ProbeImages ==
    FlatImages \cup SpottedImages
        \cup {j \in TexturedImages : j.noise_mean = 4555}

RunImages ==
    FlatImages
        \cup {j \in TexturedImages :
                 /\ j.noise_mean = 4555
                 /\ j.laplacian_var = 250000
                 /\ j.background_px = 40000 /\ j.background_std = 0}

ProductTypes == {"apple", "generic"}

\* What cv2.kmeans can return for an image: on one solid colour the three
\* centres coincide, on pure black and white two of them hold all pixels;
\* otherwise the centres, their shares and their label order depend on the
\* random initial centres.
FlatClustering ==
    [clusters |-> << [color_bgr |-> "c", percentage |-> 10000],
                     [color_bgr |-> "c", percentage |-> 0],
                     [color_bgr |-> "c", percentage |-> 0] >>]

TwoToneClustering ==
    [clusters |-> << [color_bgr |-> "white", percentage |-> 5000],
                     [color_bgr |-> "black", percentage |-> 5000],
                     [color_bgr |-> "black", percentage |-> 0] >>]

Clusterings(image) ==
    IF image.gray_std = 0 THEN {FlatClustering}
    ELSE IF image.non_zero_bins = 2 THEN {TwoToneClustering}
    ELSE { [clusters |-> << [color_bgr |-> "red",   percentage |-> 5000],
                            [color_bgr |-> "white", percentage |-> 3000],
                            [color_bgr |-> "dark",  percentage |-> 2000] >>],
           [clusters |-> << [color_bgr |-> "dark",    percentage |-> 2150],
                            [color_bgr |-> "crimson", percentage |-> 4850],
                            [color_bgr |-> "white",   percentage |-> 3000] >>] }

\* The clustering the calls outside ProbeImages are made with.
FirstClustering(image) ==
    CHOOSE k \in Clusterings(image) : k.clusters[1].percentage >= 5000

\* Readings of timezone.now()
Times == {1, 2}

Confidences == {70, 95}

BoxLists == UNION { [1..n -> Confidences] : n \in 0..MaxBoxes }

\* A raise inside self.model(image) leaves no boxes to read.
DetectorRuns ==
    { [boxes |-> b, raises |-> r] :
        b \in BoxLists, r \in {-1} \cup 1..MaxBoxes } \cup
    { [boxes |-> <<>>, raises |-> 0] }

NoRun == [boxes |-> <<>>, raises |-> -1]

Faults == {"quality_metrics", "defects", "color_analysis",
           "size_analysis", "freshness"}

\* The detector is only run by a real model.
RunsOf(mdl) ==
    IF mdl = "placeholder_model" THEN {NoRun}
    ELSE {r \in DetectorRuns : r.raises <= Len(r.boxes)}

\* The runs that return at most one box and do not raise.
PlainRunsOf(mdl) ==
    {r \in RunsOf(mdl) : r.raises = -1 /\ Len(r.boxes) <= 1}

\* The calls that can be made on an analyzer whose detector is mdl.
Calls(mdl) ==
    { [image |-> i, product_type |-> p, run |-> r, fault |-> "none",
       kmeans |-> FirstClustering(i), now |-> 1] :
        i \in Images, p \in ProductTypes, r \in PlainRunsOf(mdl) }
    \cup
    { [image |-> i, product_type |-> p, run |-> r, fault |-> "none",
       kmeans |-> FirstClustering(i), now |-> 1] :
        i \in RunImages, p \in ProductTypes, r \in RunsOf(mdl) }
    \cup
    UNION { { [image |-> i, product_type |-> p, run |-> NoRun, fault |-> "none",
               kmeans |-> k, now |-> t] :
                p \in ProductTypes, k \in Clusterings(i), t \in Times } :
            i \in ProbeImages }
    \cup
    { [image |-> i, product_type |-> p, run |-> NoRun, fault |-> f,
       kmeans |-> FirstClustering(i), now |-> 1] :
        i \in RunImages, p \in ProductTypes, f \in Faults }
    \cup
    { [image |-> NoImage, product_type |-> p, run |-> NoRun, fault |-> "none",
       kmeans |-> FlatClustering, now |-> 1] :
        p \in ProductTypes }

\* The calls that follow the first one on the same analyzer.
LaterCalls(mdl) ==
    { [image |-> i, product_type |-> p, run |-> r, fault |-> f,
       kmeans |-> FlatClustering, now |-> 1] :
        i \in {j \in FlatImages : j.gray_mean = 25500} \cup {NoImage},
        p \in ProductTypes, r \in {NoRun}, f \in {"none", "defects"} }

CustomGrades ==
    << [grade |-> "C", min_score |-> 6000],
       [grade |-> "A", min_score |-> 9000],
       [grade |-> "B", min_score |-> 7500] >>

\* A table with an entry that has no min_score.
MalformedGrades ==
    << [grade |-> "A", name |-> "Premium"],
       [grade |-> "B", min_score |-> 7000] >>

Settings ==
    { [k \in {} |-> 0],
      [YOLO_CONFIDENCE_THRESHOLD |-> 90],
      [QUALITY_GRADES |-> CustomGrades],
      [YOLO_CONFIDENCE_THRESHOLD |-> 90, QUALITY_GRADES |-> CustomGrades],
      [QUALITY_GRADES |-> MalformedGrades] }

(***************************************************************************)
(* The analyzer as a state machine.                                        *)
(***************************************************************************)
NoCall == [made |-> FALSE]
NoResult == [returned |-> FALSE]
NoExchange == [made |-> FALSE]

\* The tables before any upload: two products, not analysed, no images.
ProductIds == {1, 2}

EmptyDb ==
    [ products         |-> [id \in ProductIds |->
                               [quality_score |-> 0, quality_grade |-> "",
                                quality_analyzed |-> FALSE]],
      product_images   |-> <<>>,
      quality_analyses |-> <<>> ]

\* No call of the batch function has been made.
NoBatch == [made |-> FALSE]

\* No payment is being refunded.
NoPayment == [exists |-> FALSE]
NoRefundCall == [made |-> FALSE]
NoInventory == [exists |-> FALSE]

ServicesIdle ==
    /\ batch = NoBatch
    /\ payment = NoPayment
    /\ refund_call = NoRefundCall
    /\ inventory = NoInventory

\* __init__ up to the call of load_model
Init ==
    /\ settings \in Settings
    /\ pc = "init"
    /\ model = None
    /\ confidence_threshold = getattr(settings, "YOLO_CONFIDENCE_THRESHOLD", 50)
    /\ calls_made = 0
    /\ call = NoCall
    /\ steps = <<>>
    /\ result = NoResult
    /\ db = EmptyDb
    /\ exchange = NoExchange
    /\ ServicesIdle

LoadModel ==
    /\ pc = "init"
    /\ \E env \in LoadOutcomes : model' = load_model(env)
    /\ pc' = "ready"
    /\ UNCHANGED <<settings, confidence_threshold, calls_made, call, steps, result>>
    /\ UNCHANGED <<webVars, serviceVars>>

\* One analyze_image call: the first on this analyzer, or a further one of
\* batch_analyze_images, which shares one analyzer among its images.
AnalyzeImage ==
    /\ pc \in {"ready", "returned"}
    /\ calls_made < MaxCalls
    /\ \E c \in (IF calls_made = 0 THEN Calls(model) ELSE LaterCalls(model)) :
          /\ call' = c
          /\ steps' = StepsRun(settings, c)
          /\ result' = analyze_image(settings, model, confidence_threshold, c)
          /\ model' = SelfAfterAnalyzeImage(model, confidence_threshold, c).model
          /\ confidence_threshold' =
                 SelfAfterAnalyzeImage(model, confidence_threshold, c).confidence_threshold
    /\ calls_made' = calls_made + 1
    /\ pc' = "returned"
    /\ UNCHANGED settings
    /\ UNCHANGED <<webVars, serviceVars>>

\* analyze_product_image and batch_analyze_images build a new analyzer for
\* every request: analyzer = YOLOQualityAnalyzer()
NewAnalyzer ==
    /\ pc = "returned"
    /\ pc' = "init"
    /\ model' = None
    /\ confidence_threshold' = getattr(settings, "YOLO_CONFIDENCE_THRESHOLD", 50)
    /\ calls_made' = 0
    /\ call' = NoCall
    /\ steps' = <<>>
    /\ result' = NoResult
    /\ UNCHANGED settings
    /\ UNCHANGED <<webVars, serviceVars>>

Next == LoadModel \/ AnalyzeImage \/ NewAnalyzer

Spec == Init /\ [][Next]_vars

(***************************************************************************)
(* The image upload view (src/api/views.py) and analyze_product_image.     *)
(***************************************************************************)
\* str(AttributeError) of image_file.name on a str
NoAttributeName == "'str' object has no attribute 'name'"

\* analyze_product_image(image_file, product_type): image_file is what the
\* caller passes, a path (str) or an uploaded file object; everything that
\* raises is turned into an error map.
analyze_product_image(image_file, stg, env, c) ==
    IF image_file.type = "str"
    THEN [error |-> NoAttributeName]
    ELSE analyze_image(stg, load_model(env),
                       getattr(stg, "YOLO_CONFIDENCE_THRESHOLD", 50), c)

\* ProductImage.save(): a primary image unsets the other primary images of
\* its product.
SavedImages(images, id, row) ==
    LET others == [k \in 1..Len(images) |->
                      IF row.is_primary /\ images[k].product = row.product
                      THEN [images[k] EXCEPT !.is_primary = FALSE]
                      ELSE images[k]]
    IN  IF id <= Len(images)
        THEN [others EXCEPT ![id] = row]
        ELSE Append(others, row)

\* QualityAnalysis.objects.create(...) of the view
AnalysisRow(product_id, image_id, analysis_results) ==
    [ product       |-> product_id,
      image         |-> image_id,
      status        |-> "completed",
      overall_score |-> getattr(analysis_results, "overall_score", 0),
      quality_grade |-> getattr(analysis_results, "quality_grade", "D"),
      defect_count  |-> Len(getattr(analysis_results, "defects_detected", <<>>)),
      error_message |-> "" ]

\* The request: the multipart fields after validation, and what the
\* database does while the view runs (db_fault: the statement that raises).
ImageFiles == {i \in FlatImages : i.gray_mean \in {9300, 25500}}

DbFaults == {"none", "QualityAnalysis.create", "product.save"}

UploadRequests ==
    { [image_ok |-> ok, product_id |-> id, is_primary |-> pr,
       image |-> img, db_fault |-> f] :
        ok \in BOOLEAN, id \in ProductIds \cup {3}, pr \in BOOLEAN,
        img \in ImageFiles, f \in DbFaults }

\* serializer.is_valid(): an image and an existing product
IsValid(tables, request) ==
    request.image_ok /\ request.product_id \in DOMAIN tables.products

\* upload_product_image: tables and response after the request.
upload_product_image(tables, stg, request) ==
    IF ~IsValid(tables, request)
    THEN [ db |-> tables, stored |-> 0, analysis |-> NoResult,
           response |-> [status |-> 400, body |-> [errors |-> "invalid"]] ]
    ELSE
    LET image_id == Len(tables.product_images) + 1
        product_image == [product |-> request.product_id,
                          image |-> request.image,
                          is_primary |-> request.is_primary,
                          analyzed |-> FALSE]
        created == [tables EXCEPT !.product_images =
                        SavedImages(@, image_id, product_image)]
        analysis_results ==
            analyze_product_image([type |-> "str"], stg, "loaded",
                [image |-> request.image, product_type |-> "generic",
                 run |-> NoRun, fault |-> "none",
                 kmeans |-> FlatClustering, now |-> 1])
        quality_analysis ==
            AnalysisRow(request.product_id, image_id, analysis_results)
        with_analysis == [created EXCEPT !.quality_analyses =
                              Append(@, quality_analysis)]
        with_product ==
            [with_analysis EXCEPT !.products[request.product_id] =
                [quality_score    |-> getattr(analysis_results, "overall_score", 0),
                 quality_grade    |-> getattr(analysis_results, "quality_grade", "D"),
                 quality_analyzed |-> TRUE]]
        with_image ==
            [with_product EXCEPT !.product_images =
                SavedImages(@, image_id,
                            [product_image EXCEPT !.analyzed = TRUE])]
        failed(at) ==
            [status |-> 201,
             body |-> [message |-> "Image uploaded successfully, but quality analysis failed",
                       image_id |-> image_id,
                       analysis_error |-> at]]
    IN  IF request.db_fault = "QualityAnalysis.create"
        THEN [ db |-> created, stored |-> image_id,
               analysis |-> analysis_results,
               response |-> failed(request.db_fault) ]
        ELSE IF request.db_fault = "product.save"
        THEN [ db |-> with_analysis, stored |-> image_id,
               analysis |-> analysis_results,
               response |-> failed(request.db_fault) ]
        ELSE [ db |-> with_image, stored |-> image_id,
               analysis |-> analysis_results,
               response |->
                   [status |-> 201,
                    body |-> [message |-> "Image uploaded and analyzed successfully",
                              image_id |-> image_id,
                              quality_analysis |->
                                  [overall_score |-> quality_analysis.overall_score,
                                   quality_grade |-> quality_analysis.quality_grade,
                                   defect_count  |-> quality_analysis.defect_count]]] ]

\* The request of the re-analysis view: the image id of the URL, whether
\* the user may see the image, and what the database does meanwhile.
ExistingRequests ==
    { [image_id |-> id, permitted |-> ok, db_fault |-> f] :
        id \in 1..MaxUploads, ok \in BOOLEAN,
        f \in {"none", "QualityAnalysis.update_or_create"} }

\* QualityAnalysis.objects.update_or_create(product=, image=, defaults=)
update_or_create(analyses, row) ==
    LET matching == {k \in 1..Len(analyses) :
                        /\ analyses[k].product = row.product
                        /\ analyses[k].image = row.image}
    IN  IF matching = {} THEN Append(analyses, row)
        ELSE LET k == CHOOSE j \in matching : TRUE
             IN  [analyses EXCEPT ![k] =
                     [@ EXCEPT !.status = row.status,
                               !.overall_score = row.overall_score,
                               !.quality_grade = row.quality_grade,
                               !.defect_count = row.defect_count]]

\* analyze_existing_image: tables and response after the request.
analyze_existing_image(tables, stg, request) ==
    IF request.image_id \notin 1..Len(tables.product_images)
    THEN [ db |-> tables, stored |-> 0, analysis |-> NoResult,
           response |-> [status |-> 404, body |-> [error |-> "Image not found"]] ]
    ELSE IF ~request.permitted
    THEN [ db |-> tables, stored |-> 0, analysis |-> NoResult,
           response |-> [status |-> 403, body |-> [error |-> "Permission denied"]] ]
    ELSE
    LET product_image == tables.product_images[request.image_id]
        analysis_results ==
            analyze_product_image([type |-> "str"], stg, "loaded",
                [image |-> product_image.image, product_type |-> "generic",
                 run |-> NoRun, fault |-> "none",
                 kmeans |-> FlatClustering, now |-> 1])
        row == AnalysisRow(product_image.product, request.image_id,
                           analysis_results)
        matching == {k \in 1..Len(tables.quality_analyses) :
                        /\ tables.quality_analyses[k].product = row.product
                        /\ tables.quality_analyses[k].image = row.image}
        updated == [tables EXCEPT !.quality_analyses = update_or_create(@, row)]
    IN  IF request.db_fault # "none" \/ Cardinality(matching) > 1
        THEN [ db |-> tables, stored |-> request.image_id,
               analysis |-> analysis_results,
               response |-> [status |-> 500,
                             body |-> [error |-> "Analysis failed"]] ]
        ELSE [ db |-> updated, stored |-> request.image_id,
               analysis |-> analysis_results,
               response |->
                   [status |-> 200,
                    body |-> [message |-> "Image analyzed successfully",
                              quality_analysis |->
                                  [overall_score |-> row.overall_score,
                                   quality_grade |-> row.quality_grade,
                                   defect_count  |-> row.defect_count]]] ]

\* The web application: requests to the image views, one after the other.
UploadInit ==
    /\ settings = [k \in {} |-> 0]
    /\ pc = "web"
    /\ model = None
    /\ confidence_threshold = getattr(settings, "YOLO_CONFIDENCE_THRESHOLD", 50)
    /\ calls_made = 0
    /\ call = NoCall
    /\ steps = <<>>
    /\ result = NoResult
    /\ db = EmptyDb
    /\ exchange = NoExchange
    /\ ServicesIdle

UploadProductImage ==
    /\ pc = "web"
    /\ Len(db.product_images) < MaxUploads
    /\ \E request \in UploadRequests :
          LET done == upload_product_image(db, settings, request)
          IN  /\ db' = done.db
              /\ exchange' = [made |-> TRUE, view |-> "upload_product_image",
                              request |-> request,
                              stored |-> done.stored,
                              analysis |-> done.analysis,
                              response |-> done.response]
    /\ UNCHANGED <<analyzerVars, serviceVars>>

AnalyzeExistingImage ==
    /\ pc = "web"
    /\ \E request \in ExistingRequests :
          LET done == analyze_existing_image(db, settings, request)
          IN  /\ db' = done.db
              /\ exchange' = [made |-> TRUE, view |-> "analyze_existing_image",
                              request |-> request,
                              stored |-> done.stored,
                              analysis |-> done.analysis,
                              response |-> done.response]
    /\ UNCHANGED <<analyzerVars, serviceVars>>

UploadNext == UploadProductImage \/ AnalyzeExistingImage

UploadSpec == UploadInit /\ [][UploadNext]_vars

(***************************************************************************)
(* batch_analyze_images(image_paths, product_type): one analyzer, built    *)
(* before the loop, analyses the paths in order.                           *)
(***************************************************************************)
\* The files behind the paths of a batch: what cv2.imread returns for the
\* path and the analyzer without a handler that raises on it.
BatchPaths == {"white.jpg", "red.jpg", "missing.jpg", "corrupt.jpg"}

PathImage(image_path) ==
    CASE image_path = "white.jpg" ->
             CHOOSE i \in FlatImages : i.gray_mean = 25500
      [] image_path = "red.jpg" ->
             CHOOSE i \in FlatImages : i.gray_mean = 9300
      [] image_path = "corrupt.jpg" ->
             CHOOSE i \in FlatImages : i.gray_mean = 12800
      [] OTHER -> NoImage

PathCall(image_path, product_type) ==
    LET image == PathImage(image_path)
    IN  [image |-> image, product_type |-> product_type, run |-> NoRun,
         fault |-> IF image_path = "corrupt.jpg" THEN "freshness" ELSE "none",
         kmeans |-> IF image = NoImage THEN FlatClustering
                    ELSE FirstClustering(image),
         now |-> 1]

RECURSIVE SequencesUpTo(_, _)
SequencesUpTo(S, n) ==
    IF n = 0 THEN {<<>>}
    ELSE LET shorter == SequencesUpTo(S, n - 1)
         IN  shorter \cup {Append(q, x) : q \in shorter, x \in S}

BatchInputs == SequencesUpTo(BatchPaths, MaxBatch)

\* Faulty variant: batch_index is the 0-based position of enumerate.
batch_entry_zero_based(image_paths, i, analysis) ==
    [ image_path   |-> image_paths[i + 1],
      analysis     |-> analysis,
      batch_index  |-> i,
      total_images |-> Len(image_paths) ]

\* results.append({...}) for the path at enumerate index i (from 0)
batch_entry(image_paths, i, analysis) ==
    [ image_path   |-> image_paths[i + 1],
      analysis     |-> analysis,
      batch_index  |-> i + 1,
      total_images |-> Len(image_paths) ]

\* The loop over enumerate(image_paths), from index i on; self is the
\* analyzer built before the loop, as the previous calls left it.
RECURSIVE BatchLoop(_, _, _, _, _, _)
BatchLoop(image_paths, product_type, stg, self, i, results) ==
    IF i >= Len(image_paths) THEN results
    ELSE LET c == PathCall(image_paths[i + 1], product_type)
             analysis == analyze_image(stg, self.model,
                                       self.confidence_threshold, c)
             after == SelfAfterAnalyzeImage(self.model,
                                            self.confidence_threshold, c)
         IN  BatchLoop(image_paths, product_type, stg, after, i + 1,
                       Append(results,
                              batch_entry(image_paths, i, analysis)))

batch_analyze_images(image_paths, product_type, stg, env) ==
    LET analyzer == [model |-> load_model(env),
                     confidence_threshold |->
                         getattr(stg, "YOLO_CONFIDENCE_THRESHOLD", 50)]
    IN  BatchLoop(image_paths, product_type, stg, analyzer, 0, <<>>)

BatchInit ==
    /\ settings \in Settings
    /\ pc = "batch"
    /\ model = None
    /\ confidence_threshold = getattr(settings, "YOLO_CONFIDENCE_THRESHOLD", 50)
    /\ calls_made = 0
    /\ call = NoCall
    /\ steps = <<>>
    /\ result = NoResult
    /\ db = EmptyDb
    /\ exchange = NoExchange
    /\ ServicesIdle

\* One call of batch_analyze_images in a process.
BatchAnalyzeImages ==
    /\ pc = "batch"
    /\ ~batch.made
    /\ \E image_paths \in BatchInputs, product_type \in ProductTypes,
          env \in LoadOutcomes :
          batch' = [made |-> TRUE, image_paths |-> image_paths,
                    product_type |-> product_type, env |-> env,
                    results |-> batch_analyze_images(image_paths, product_type,
                                                     settings, env)]
    /\ UNCHANGED <<analyzerVars, webVars, payment, refund_call, inventory>>

BatchNext == BatchAnalyzeImages

BatchSpec == BatchInit /\ [][BatchNext]_vars

(***************************************************************************)
(* PaymentProcessor.refund_payment (src/payments/services.py).  Amounts    *)
(* are Decimals with two places, kept in cents.  p is the Payment object   *)
(* the caller holds: its fields, the row payment.save() last wrote         *)
(* (saved), and the Refund records of the payment.                         *)
(***************************************************************************)
\* Faulty variant: refunds already made are not deducted.
Refundable_total(p) == p.amount

\* payment.amount - payment.refunded_amount
Refundable(p) == p.amount - p.refunded_amount

\* The amount argument: left at its default None, or a Decimal.
NoAmount == [given |-> FALSE]
Decimal(cents) == [given |-> TRUE, value |-> cents]

\* refund_amount = amount or payment.amount: None and Decimal('0') are falsy
RefundAmount(p, amount) ==
    IF ~amount.given \/ amount.value = 0 THEN p.amount ELSE amount.value

\* db_fault is the statement in which the database raises, if any.
refund_payment(p, amount, db_fault) ==
    LET refund_amount == RefundAmount(p, amount)
        refund == [amount |-> refund_amount, status |-> "pending"]
        refunded == p.refunded_amount + refund_amount
        updated == [p EXCEPT !.refunds = Append(@, refund),
                             !.refunded_amount = refunded,
                             !.status = IF refunded >= p.amount
                                        THEN "refunded"
                                        ELSE "partially_refunded"]
        failed == [success |-> FALSE, error |-> "Refund processing failed"]
    IN  IF refund_amount > Refundable(p)
        THEN [ payment |-> p,
               returns |-> [success |-> FALSE,
                            error |-> "Refund amount exceeds available amount"] ]
        ELSE IF db_fault = "Refund.objects.create"
        THEN [ payment |-> p, returns |-> failed ]
        ELSE IF db_fault = "payment.save"
        THEN [ payment |-> updated, returns |-> failed ]
        ELSE [ payment |-> [updated EXCEPT !.saved =
                               [refunded_amount |-> updated.refunded_amount,
                                status |-> updated.status]],
               returns |-> [success |-> TRUE, amount |-> refund_amount,
                            status |-> refund.status] ]

\* A payment that was made and has no refund yet.
Payments ==
    { [exists |-> TRUE, amount |-> a, refunded_amount |-> 0, status |-> st,
       saved |-> [refunded_amount |-> 0, status |-> st], refunds |-> <<>>] :
        a \in 1..MaxAmount, st \in {"completed", "pending"} }

\* The amount argument: none, or any Decimal from below 0 to above amount.
RefundRequests(p) ==
    {NoAmount} \cup {Decimal(cents) : cents \in -1..(p.amount + 1)}

RefundFaults == {"none", "Refund.objects.create", "payment.save"}

RefundInit ==
    /\ settings = [k \in {} |-> 0]
    /\ pc = "payments"
    /\ model = None
    /\ confidence_threshold = getattr(settings, "YOLO_CONFIDENCE_THRESHOLD", 50)
    /\ calls_made = 0
    /\ call = NoCall
    /\ steps = <<>>
    /\ result = NoResult
    /\ db = EmptyDb
    /\ exchange = NoExchange
    /\ batch = NoBatch
    /\ payment \in Payments
    /\ refund_call = [made |-> FALSE, calls |-> 0]
    /\ inventory = NoInventory

RefundPayment ==
    /\ pc = "payments"
    /\ refund_call.calls < MaxRefundCalls
    /\ \E amount \in RefundRequests(payment), db_fault \in RefundFaults :
          LET done == refund_payment(payment, amount, db_fault)
          IN  /\ payment' = done.payment
              /\ refund_call' = [made |-> TRUE,
                                 calls |-> refund_call.calls + 1,
                                 amount |-> amount,
                                 before |-> payment,
                                 returns |-> done.returns]
    /\ UNCHANGED <<analyzerVars, webVars, batch, inventory>>

RefundNext == RefundPayment

RefundSpec == RefundInit /\ [][RefundNext]_vars

(***************************************************************************)
(* InventoryService (src/inventory/services.py).  inv is the inventory of  *)
(* a product: the InventoryItem (item) and its StockMovement records, in   *)
(* the order they were created.  Quantities are whole units.               *)
(***************************************************************************)
\* InventoryItem.update_available_stock
update_available_stock(item) ==
    [item EXCEPT !.available_stock = item.current_stock - item.reserved_stock]

\* InventoryService.update_stock
update_stock(inv, quantity, movement_type) ==
    LET stock_before == inv.item.current_stock
        moved ==
            IF movement_type \in {"purchase", "return", "adjustment"}
            THEN [inv.item EXCEPT !.current_stock = @ + quantity]
            ELSE IF movement_type \in {"sale", "waste", "transfer"}
            THEN [inv.item EXCEPT !.current_stock = @ - quantity]
            ELSE IF movement_type = "reservation"
            THEN [inv.item EXCEPT !.reserved_stock = @ + quantity]
            ELSE IF movement_type = "release"
            THEN [inv.item EXCEPT !.reserved_stock = @ - quantity]
            ELSE inv.item
        item == update_available_stock(moved)
        movement == [movement_type |-> movement_type, quantity |-> quantity,
                     stock_before |-> stock_before,
                     stock_after |-> item.current_stock]
    IN  [inv EXCEPT !.item = item, !.movements = Append(@, movement)]

\* Each service returns the inventory after the call and its return value;
\* a product without inventory raises InventoryItem.DoesNotExist.
reserve_stock(inv, quantity) ==
    IF ~inv.exists THEN [inventory |-> inv, returns |-> FALSE]
    ELSE IF inv.item.available_stock >= quantity
    THEN [inventory |-> update_stock(inv, quantity, "reservation"),
          returns |-> TRUE]
    ELSE [inventory |-> inv, returns |-> FALSE]

release_stock(inv, quantity) ==
    IF ~inv.exists THEN [inventory |-> inv, returns |-> FALSE]
    ELSE IF inv.item.reserved_stock >= quantity
    THEN [inventory |-> update_stock(inv, quantity, "release"),
          returns |-> TRUE]
    ELSE [inventory |-> inv, returns |-> FALSE]

process_sale(inv, quantity) ==
    IF ~inv.exists THEN [inventory |-> inv, returns |-> FALSE]
    ELSE [inventory |-> update_stock(update_stock(inv, quantity, "release"),
                                     quantity, "sale"),
          returns |-> TRUE]

\* A stocked item with nothing reserved, or a product without inventory.
Inventories ==
    { [exists |-> TRUE,
       item |-> [current_stock |-> n, reserved_stock |-> 0,
                 available_stock |-> n],
       movements |-> <<>>, last |-> [made |-> FALSE]] : n \in 0..MaxStock }
    \cup { [exists |-> FALSE, movements |-> <<>>, last |-> [made |-> FALSE]] }

\* The quantity of an order line
Quantities == 1..MaxStock

InventoryInit ==
    /\ settings = [k \in {} |-> 0]
    /\ pc = "inventory"
    /\ model = None
    /\ confidence_threshold = getattr(settings, "YOLO_CONFIDENCE_THRESHOLD", 50)
    /\ calls_made = 0
    /\ call = NoCall
    /\ steps = <<>>
    /\ result = NoResult
    /\ db = EmptyDb
    /\ exchange = NoExchange
    /\ batch = NoBatch
    /\ payment = NoPayment
    /\ refund_call = NoRefundCall
    /\ inventory \in Inventories

\* inventory after a call of a service, with the call recorded
AfterCall(service, quantity, done) ==
    [done.inventory EXCEPT !.last =
        [made |-> TRUE, service |-> service, quantity |-> quantity,
         before |-> [inventory EXCEPT !.last = [made |-> FALSE]],
         returns |-> done.returns]]

ReserveStock ==
    /\ pc = "inventory"
    /\ Len(inventory.movements) < MaxMovements
    /\ \E quantity \in Quantities :
          inventory' = AfterCall("reserve_stock", quantity,
                                 reserve_stock(inventory, quantity))
    /\ UNCHANGED <<analyzerVars, webVars, batch, payment, refund_call>>

ReleaseStock ==
    /\ pc = "inventory"
    /\ Len(inventory.movements) < MaxMovements
    /\ \E quantity \in Quantities :
          inventory' = AfterCall("release_stock", quantity,
                                 release_stock(inventory, quantity))
    /\ UNCHANGED <<analyzerVars, webVars, batch, payment, refund_call>>

ProcessSale ==
    /\ pc = "inventory"
    /\ Len(inventory.movements) + 2 <= MaxMovements
    /\ \E quantity \in Quantities :
          inventory' = AfterCall("process_sale", quantity,
                                 process_sale(inventory, quantity))
    /\ UNCHANGED <<analyzerVars, webVars, batch, payment, refund_call>>

InventoryNext == ReserveStock \/ ReleaseStock \/ ProcessSale

InventorySpec == InventoryInit /\ [][InventoryNext]_vars

(***************************************************************************)
(* Properties                                                              *)
(***************************************************************************)
Returned == pc = "returned"
IsError(r) == "error" \in DOMAIN r
\* analyze_image returned a result (no 'error' key)
HasResult == Returned /\ ~IsError(result)
DefaultTable == "QUALITY_GRADES" \notin DOMAIN settings
Decoded == Returned /\ call.image # NoImage
\* the configured grade table can be sorted
GradesWellFormed == WellFormed(ConfiguredGrades(settings))
\* a decoded image, no analyzer raising, a usable grade table
CleanCall == Decoded /\ call.fault = "none" /\ GradesWellFormed

\* C1: with the default grade table, every result of analyze_image has
\* overall_score in [0,100] and a grade among A, B, C, D.
C1_ScoreAndGradeInRange ==
    (HasResult /\ DefaultTable) =>
        /\ result.overall_score \in 0..10000
        /\ result.grade \in {"A", "B", "C", "D"}

\* C1 witness: a result whose weighted sum minus the penalty was negative
\* and was floored at 0 (grade D).
C1_Witness ==
    /\ HasResult /\ DefaultTable
    /\ TotalScore(result.quality_metrics, result.objects_detected)
           < NoisePenalty(result.quality_metrics)
    /\ result.overall_score = 0
    /\ result.grade = "D"

\* The grade of the highest min_score of the table that score reaches, "D"
\* when it reaches none.
HighestThresholdMet(score, grades) ==
    LET met == {i \in 1..Len(grades) : score >= grades[i].min_score}
    IN  IF met = {} THEN "D"
        ELSE grades[CHOOSE i \in met :
                        \A j \in met : grades[j].min_score <= grades[i].min_score].grade

\* C2: the grade of every result is that of the highest configured threshold
\* the score meets; with the default table 85 gives A, below 85 down to 70
\* gives B, below 70 down to 50 gives C, anything below 50 gives D.
C2_GradeIsHighestThresholdMet ==
    HasResult =>
        /\ result.grade = HighestThresholdMet(result.overall_score,
                                               ConfiguredGrades(settings))
        /\ DefaultTable =>
              /\ result.overall_score >= 8500 => result.grade = "A"
              /\ result.overall_score \in 7000..8499 => result.grade = "B"
              /\ result.overall_score \in 5000..6999 => result.grade = "C"
              /\ result.overall_score < 5000 => result.grade = "D"

\* C2 witness: a score of exactly 85.00 graded A under the default table.
C2_Witness ==
    HasResult /\ DefaultTable /\ result.overall_score = 8500 /\ result.grade = "A"

\* C3 as stated: every entry of the metrics map of a result is in [0,100].
C3_EveryMetricWithin100 ==
    HasResult =>
        \A k \in DOMAIN result.quality_metrics :
            result.quality_metrics[k] \in 0..10000

\* C3 amended: the metrics the code scales (sharpness, lighting_quality,
\* background_uniformity, color_accuracy, size_appropriateness,
\* shape_regularity) are in [0,100]; brightness, saturation and noise_level
\* are grey-level means in [0,255], contrast is a standard deviation in
\* [0,127.5], and focus_quality is only known to be non-negative.
ScaledMetrics ==
    {"sharpness", "lighting_quality", "background_uniformity",
     "color_accuracy", "size_appropriateness", "shape_regularity"}

C3_MetricRanges ==
    HasResult =>
        LET m == result.quality_metrics
        IN  /\ \A k \in ScaledMetrics \cap DOMAIN m : m[k] \in 0..10000
            /\ m.brightness \in 0..25500
            /\ m.saturation \in 0..25500
            /\ m.noise_level \in 0..25500
            /\ m.contrast \in 0..12750
            /\ m.focus_quality >= 0

\* C3 witness: a result for a known product whose sharpness was capped at
\* 100 while its brightness and focus_quality are above 100.
C3_Witness ==
    /\ HasResult
    /\ ScaledMetrics \subseteq DOMAIN result.quality_metrics
    /\ call.image.laplacian_var > 100000
    /\ result.quality_metrics.sharpness = 10000
    /\ result.quality_metrics.brightness > 10000
    /\ result.quality_metrics.focus_quality > 10000

\* C4 as stated: for a product type outside the standards table the call
\* gives no error result and the metrics hold color_accuracy,
\* size_appropriateness and shape_regularity, all equal to 75.
C4_UnknownProductDefaults ==
    (CleanCall /\ ~IsKnownProduct(call.product_type)) =>
        /\ ~IsError(result)
        /\ \A k \in {"color_accuracy", "size_appropriateness", "shape_regularity"} :
               /\ k \in DOMAIN result.quality_metrics
               /\ result.quality_metrics[k] = 7500

C6_LeafFailureAbsorbed ==
    (Decoded /\ GradesWellFormed) =>
        /\ ~IsError(result)
        /\ {"overall_score", "grade"} \subseteq DOMAIN result

\* C7 as stated: without a detection backend the adapter returns no
\* detections, and the score holds no detection-confidence term.
C7_NoBackendNoDetections ==
    (HasResult /\ model = "placeholder_model") =>
        /\ result.objects_detected = <<>>
        /\ DetectionTerm(result.objects_detected) = 0

\* C8 as stated: every detection returned has a confidence at or above the
\* configured threshold, whatever the threshold and the backend.
C8_DetectionsMeetThreshold ==
    HasResult =>
        \A i \in 1..Len(result.objects_detected) :
            result.objects_detected[i].confidence >= confidence_threshold

\* overall_score of the returned result's metrics and detections with only
\* noise_level replaced by n.
ScoreAtNoise(n) ==
    _calculate_overall_score([result.quality_metrics EXCEPT !.noise_level = n],
                             result.objects_detected)

\* Noise levels at or above 20 to compare: the result's own, if there, and
\* fixed ones.
NoiseProbes ==
    {2000, 2001, 2003, 2004, 2400, 6000, 25500}
        \cup {n \in {result.quality_metrics.noise_level} : n >= 2000}

\* C9 as stated: all else fixed, raising the noise_level of a result from a
\* value >= 20 to a larger one strictly decreases overall_score.
C9_StrictlyDecreasing ==
    (HasResult /\ result.quality_metrics.noise_level >= 2000) =>
        \A n2 \in NoiseProbes :
            result.quality_metrics.noise_level < n2
                => ScoreAtNoise(n2) < result.overall_score

\* C9 amended: all else fixed, raising noise_level from a value >= 20 never
\* increases overall_score, and strictly decreases it when the score at the
\* lower noise is above 0 and the noise rises by 0.03 or more.
C9_NonIncreasing ==
    HasResult =>
        \A n1, n2 \in NoiseProbes :
            n1 < n2 =>
                /\ ScoreAtNoise(n2) <= ScoreAtNoise(n1)
                /\ (ScoreAtNoise(n1) > 0 /\ n2 - n1 >= 3)
                       => ScoreAtNoise(n2) < ScoreAtNoise(n1)

\* C9 witness: a result with noise_level >= 20 and a score above 0 that 0.03
\* more noise lowers, while at 255 the score is on the floor.
C9_Witness ==
    /\ HasResult
    /\ result.quality_metrics.noise_level >= 2000
    /\ result.overall_score > 0
    /\ ScoreAtNoise(result.quality_metrics.noise_level + 3) < result.overall_score
    /\ ScoreAtNoise(25500) = 0

\* C10: when the size analysis finds no contour the call (no other analyzer
\* raising, a usable grade table) returns a result: size_analysis is the
\* error marker, for a known product type size_appropriateness and
\* shape_regularity are 50, and overall_score is computed and in [0,100].
C10_ZeroContoursDegrade ==
    (CleanCall /\ call.image.contours = 0) =>
        /\ ~IsError(result)
        /\ result.size_analysis = [error |-> "No objects detected"]
        /\ result.overall_score \in 0..10000
        /\ IsKnownProduct(call.product_type) =>
              /\ result.quality_metrics.size_appropriateness = 5000
              /\ result.quality_metrics.shape_regularity = 5000

\* C10 witness: a result for a known product type on an image without
\* contours.
C10_Witness ==
    /\ HasResult
    /\ call.image.contours = 0
    /\ IsKnownProduct(call.product_type)
    /\ result.quality_metrics.size_appropriateness = 5000
    /\ result.overall_score > 0

\* The analysis of the image uploaded by the last request failed.
UploadAnalysisFailed ==
    /\ exchange.made
    /\ exchange.view = "upload_product_image"
    /\ exchange.stored > 0
    /\ IsError(exchange.analysis)

\* C11 as stated: when the analysis of an uploaded image fails the image is
\* stored and the answer is a success, and what is stored for the image is
\* marked failed with the error message, not recorded as a completed
\* analysis.
C11_FailedAnalysisMarkedFailed ==
    UploadAnalysisFailed =>
        /\ exchange.stored \in 1..Len(db.product_images)
        /\ exchange.response.status = 201
        /\ ~db.product_images[exchange.stored].analyzed
        /\ \A k \in 1..Len(db.quality_analyses) :
               db.quality_analyses[k].image = exchange.stored =>
                   /\ db.quality_analyses[k].status = "failed"
                   /\ db.quality_analyses[k].error_message = exchange.analysis.error

\* C12 as stated: with a grade table that has an entry without min_score the
\* call is rejected with ConfigurationError before any processing step
\* (decoding, detection, metrics, scoring) has begun.
C12_RejectedBeforeProcessing ==
    (Decoded /\ call.fault = "none" /\ ~GradesWellFormed) =>
        /\ "raised" \in DOMAIN result
        /\ result.raised = "ConfigurationError"
        /\ steps = <<>>

\* The detector raised during the call: in self.model(image) or while a box
\* was read.
DetectorFailed == CleanCall /\ call.run.raises >= 0

\* C13 as stated: when the detector fails at any point of the detection,
\* also after some detections were collected, the call still returns a
\* result, without detections and without a detection term in the score.
C13_DetectorFailureMeansNoDetections ==
    DetectorFailed =>
        /\ ~IsError(result)
        /\ result.objects_detected = <<>>
        /\ result.overall_score =
               _calculate_overall_score(result.quality_metrics, <<>>)

\* The calls with the image, product type and detector output of the
\* current call, for every clustering and every clock reading.
Replays ==
    { [call EXCEPT !.kmeans = k, !.now = t] :
        k \in Clusterings(call.image), t \in Times }

Replay(c2) == analyze_image(settings, model, confidence_threshold, c2)

\* C14: a second call with the same image, product type and detector output
\* returns the same overall_score and the same grade, whatever the
\* clustering chooses.
C14_ScoreAndGradeReproducible ==
    HasResult =>
        \A c2 \in Replays :
            /\ ~IsError(Replay(c2))
            /\ Replay(c2).overall_score = result.overall_score
            /\ Replay(c2).grade = result.grade

\* C14 witness: a result for which another clustering is possible, giving
\* other dominant colours and the same score and grade.
C14_Witness ==
    /\ HasResult
    /\ \E c2 \in Replays :
           /\ Replay(c2).color_analysis.dominant_colors
                  # result.color_analysis.dominant_colors
           /\ Replay(c2).overall_score = result.overall_score
           /\ Replay(c2).grade = result.grade

\* C15 as stated: a second call on the same image and product type with the
\* same detector output returns a result equal in every field except
\* timestamp.
C15_ReplayIdenticalButTimestamp ==
    HasResult =>
        \A c2 \in Replays :
            [Replay(c2) EXCEPT !.timestamp = 0] = [result EXCEPT !.timestamp = 0]

\* The source order of the leaves, its rotations, and the reverses of these.
Rotate(order, n) ==
    [k \in 1..Len(order) |-> order[((k + n - 1) % Len(order)) + 1]]

Reverse(order) ==
    [k \in 1..Len(order) |-> order[Len(order) + 1 - k]]

LeafOrders ==
    LET rotations == {Rotate(SourceOrder, n) : n \in 0..(Len(SourceOrder) - 1)}
    IN  rotations \cup {Reverse(o) : o \in rotations}

IsSolidColour(image) ==
    image.gray_std = 0 /\ image.laplacian_var = 0 /\ image.contours = 0

SolidColourAnalysed == CleanCall /\ IsSolidColour(call.image)

RECURSIVE SumOver(_, _)
SumOver(areas, indices) ==
    IF indices = {} THEN 0
    ELSE LET i == CHOOSE j \in indices : TRUE
         IN  areas[i] + SumOver(areas, indices \ {i})

\* C19: the defects of a result hold one dark_spots record exactly when a
\* dark contour has area > 100; its count and total_area are the number and
\* the summed area of those contours only, its severity is high above 5 of
\* them and medium for 1 to 5.
C19_DarkSpotsRecord ==
    HasResult =>
        LET areas == call.image.dark_areas
            big == {i \in 1..Len(areas) : areas[i] > 100}
            records == SelectSeq(result.defects,
                                 LAMBDA d : d.type = "dark_spots")
        IN  /\ big = {} => records = <<>>
            /\ big # {} =>
                  /\ Len(records) = 1
                  /\ records[1].count = Cardinality(big)
                  /\ records[1].total_area = SumOver(areas, big)
                  /\ records[1].severity =
                         (IF Cardinality(big) > 5 THEN "high" ELSE "medium")

\* C19 witness: a record of severity high for six contours, on an image that
\* also has dark contours of area 100 and below.
C19_Witness ==
    /\ HasResult
    /\ \E i \in 1..Len(call.image.dark_areas) : call.image.dark_areas[i] = 100
    /\ \E i \in 1..Len(result.defects) :
           /\ result.defects[i].type = "dark_spots"
           /\ result.defects[i].severity = "high"
           /\ result.defects[i].count = 6

\* The terms of the score by name, in units of 1/6000 of a point (weight 0.1
\* of a value in hundredths is 6 units per hundredth).
ScoreComponents ==
    {"sharpness", "brightness", "contrast", "lighting_quality",
     "color_accuracy", "size_appropriateness", "shape_regularity",
     "background_uniformity"}

ComponentTerm(m, k) ==
    CASE k = "brightness" ->
             6 * Max(0, 10000 - 2 * Abs(m.brightness - 13000))
      [] k = "contrast" ->
             Max(0, 60000 - 9 * Abs(m.contrast - 6500))
      [] k = "color_accuracy" -> 12 * m.color_accuracy
      [] OTHER -> 6 * m[k]

RECURSIVE SumTerms(_, _)
SumTerms(m, keys) ==
    IF keys = {} THEN 0
    ELSE LET k == CHOOSE x \in keys : TRUE
         IN  ComponentTerm(m, k) + SumTerms(m, keys \ {k})

MeanConfidenceTerm(objects) ==
    IF Len(objects) = 0 THEN 0
    ELSE LET total == SumOver([i \in 1..Len(objects) |-> objects[i].confidence],
                              1..Len(objects))
         IN  (600 * total) \div Len(objects)

StatedPenalty(m) ==
    IF m.noise_level > 2000 THEN 30 * (m.noise_level - 2000) ELSE 0

\* value (in hundredths) is x (in units of 1/6000) rounded to 2 decimals.
IsRounded(value, x) ==
    /\ Abs(60 * value - x) <= 30
    /\ Abs(60 * value - x) = 30 => value % 2 = 0

\* C20: overall_score is the sum of the weighted terms of the components
\* that are present, minus the noise penalty, clamped to [0,100] and rounded
\* to 2 decimals.
C20_ScoreFormula ==
    HasResult =>
        LET m == result.quality_metrics
            total == SumTerms(m, ScoreComponents \cap DOMAIN m)
                         + MeanConfidenceTerm(result.objects_detected)
            clamped == Max(0, Min(600000, total - StatedPenalty(m)))
        IN  IsRounded(result.overall_score, clamped)

\* C20 witness: a result with all nine terms and a noise penalty, whose
\* score is strictly between 0 and 100.
C20_Witness ==
    /\ HasResult
    /\ ScoreComponents \subseteq DOMAIN result.quality_metrics
    /\ result.objects_detected # <<>>
    /\ result.quality_metrics.noise_level > 2000
    /\ result.overall_score \in 1..9999

(***************************************************************************)
(* C21.  The texture-irregularity detector emits a texture_irregularity    *)
(* record of severity low whenever the mean of the squared texture-filter  *)
(* response of the analysed image exceeds 1000.                            *)
(***************************************************************************)
RECURSIVE SumOfSquares(_)
SumOfSquares(response) ==
    IF response = <<>> THEN 0
    ELSE Head(response) * Head(response) + SumOfSquares(Tail(response))

MeanSquaredResponse(image) ==
    (100 * SumOfSquares(image.gabor_response)) \div Len(image.gabor_response)

HasDefect(type) ==
    \E k \in DOMAIN result.defects : result.defects[k].type = type

C21_TextureIrregularityFires ==
    (HasResult /\ MeanSquaredResponse(call.image) > 100000)
        => \E k \in DOMAIN result.defects :
               /\ result.defects[k].type = "texture_irregularity"
               /\ result.defects[k].severity = "low"

(***************************************************************************)
(* C22.  background_uniformity and the number of background pixels.        *)
(***************************************************************************)
ScoredBackground(image) == Max(0, 10000 - image.background_std)

\* C22 as stated: background_uniformity is 100 minus the mean per-channel
\* standard deviation of the background pixels, floored at 0, whenever at
\* least 100 background pixels exist, exactly 100 included, and the default
\* 50 only when fewer than 100 exist.
C22_BackgroundScoredFrom100 ==
    HasResult =>
        result.quality_metrics.background_uniformity
            = IF call.image.background_px >= 100
              THEN ScoredBackground(call.image) ELSE 5000

\* C22 amended: background_uniformity is computed from the background
\* pixels whenever more than 100 of them exist, and is the default 50 when
\* 100 or fewer exist, exactly 100 included.
C22_BackgroundScoredAbove100 ==
    HasResult =>
        result.quality_metrics.background_uniformity
            = IF call.image.background_px > 100
              THEN ScoredBackground(call.image) ELSE 5000

\* C22 witness: exactly 100 background pixels of spread 15 get the default.
C22_Witness ==
    /\ HasResult
    /\ call.image.background_px = 100
    /\ call.image.background_std = 1500
    /\ result.quality_metrics.background_uniformity = 5000

(***************************************************************************)
(* C23.  The aspect_ratio of the size analysis is min(w,h)/max(w,h) of the *)
(* main contour's bounding rectangle and so lies in [0,1], for wide as     *)
(* well as tall objects.                                                   *)
(***************************************************************************)
SizeMeasured == HasResult /\ "aspect_ratio" \in DOMAIN result.size_analysis

C23_AspectRatioAtMostOne ==
    SizeMeasured =>
        LET w == result.size_analysis.bounding_box.width
            h == result.size_analysis.bounding_box.height
        IN  /\ result.size_analysis.aspect_ratio = (100 * Min(w, h)) \div Max(w, h)
            /\ result.size_analysis.aspect_ratio \in 0..100

(***************************************************************************)
(* C24.  Each threshold-driven recommendation is given exactly when its    *)
(* metric of the analysed image crosses its threshold (sharpness < 50,     *)
(* lighting_quality < 60, background_uniformity < 70, color_accuracy < 70, *)
(* noise_level > 20), the colour advice only when the colour accuracy of   *)
(* the image is below 70, whatever the product type, and the three         *)
(* generic tips are the last entries of the list.                          *)
(***************************************************************************)
Recommends(line) ==
    \E k \in DOMAIN result.recommendations : result.recommendations[k] = line

GenericTips ==
    <<"Center the product in the frame",
      "Ensure the entire product is visible",
      "Take multiple angles for better representation">>

C24_RecommendationsFollowMetrics ==
    HasResult =>
        LET m == result.quality_metrics
            r == result.recommendations
        IN  /\ Recommends("Use a tripod or stabilize camera to reduce blur")
                   <=> m.sharpness < 5000
            /\ Recommends("Avoid harsh shadows and direct flash")
                   <=> m.lighting_quality < 6000
            /\ Recommends("Use a plain, neutral background")
                   <=> m.background_uniformity < 7000
            /\ Recommends("Check white balance settings")
                   <=> _analyze_color_accuracy(call.image, call.product_type) < 7000
            /\ Recommends("Reduce ISO settings to minimize noise")
                   <=> m.noise_level > 2000
            /\ Len(r) >= 3
            /\ SubSeq(r, Len(r) - 2, Len(r)) = GenericTips

(***************************************************************************)
(* C25.  analyze_image raises nothing and returns nothing partial: what it *)
(* returns is either a complete result (overall_score, grade,              *)
(* quality_metrics, defects, color_analysis, size_analysis,                *)
(* freshness_indicators, objects_detected, recommendations, timestamp) or  *)
(* a map whose only key is 'error'.                                        *)
(***************************************************************************)
ResultKeys ==
    {"overall_score", "grade", "quality_metrics", "defects", "color_analysis",
     "size_analysis", "freshness_indicators", "objects_detected",
     "recommendations", "timestamp"}

C25_CompleteResultOrErrorOnly ==
    Returned =>
        \/ DOMAIN result = {"error"}
        \/ ResultKeys \subseteq DOMAIN result /\ "error" \notin DOMAIN result

\* C25 witness: the freshness analysis raises after score, grade, defects,
\* colours and size have been computed, and only the error is returned.
C25_Witness ==
    /\ Returned
    /\ call.fault = "freshness"
    /\ Len(steps) > Len(StepsBeforeGrade \o StepsOfGrade)
    /\ DOMAIN result = {"error"}

(***************************************************************************)
(* C26.  For an image whose analysis succeeds, the overall score and grade *)
(* that upload_product_image and analyze_existing_image persist on         *)
(* QualityAnalysis (and, for upload, on Product) are the overall_score and *)
(* grade the analyzer computes for that image, not the defaults 0.0 / 'D'. *)
(***************************************************************************)
\* The image the last request had analysed.
ExchangeImage == db.product_images[exchange.stored].image

\* What the analyzer computes for an image sent through the views.
AnalyzerResultFor(image) ==
    analyze_image(settings, load_model("loaded"),
                  getattr(settings, "YOLO_CONFIDENCE_THRESHOLD", 50),
                  [image |-> image, product_type |-> "generic", run |-> NoRun,
                   fault |-> "none", kmeans |-> FlatClustering, now |-> 1])

\* The last request stored an analysis of an image the analyzer can analyse.
AnalysisPersisted ==
    /\ exchange.made
    /\ exchange.response.status \in {200, 201}
    /\ "quality_analysis" \in DOMAIN exchange.response.body
    /\ ~IsError(AnalyzerResultFor(ExchangeImage))

C26_PersistedScoreIsAnalyzerScore ==
    AnalysisPersisted =>
        LET computed == AnalyzerResultFor(ExchangeImage)
            product == db.product_images[exchange.stored].product
        IN  /\ \A k \in 1..Len(db.quality_analyses) :
                   db.quality_analyses[k].image = exchange.stored =>
                       /\ db.quality_analyses[k].overall_score = computed.overall_score
                       /\ db.quality_analyses[k].quality_grade = computed.grade
            /\ exchange.view = "upload_product_image" =>
                   /\ db.products[product].quality_score = computed.overall_score
                   /\ db.products[product].quality_grade = computed.grade

(***************************************************************************)
(* C27.  For a product type that is not in the product-standards table,    *)
(* overall_score never exceeds 60, whatever the image and the detections,  *)
(* so with the default grade table such an analysis is never graded A or   *)
(* B.                                                                      *)
(***************************************************************************)
UnknownProductAnalysed == HasResult /\ ~IsKnownProduct(call.product_type)

AnalysedAlone(image_path) ==
    analyze_image(settings, load_model(batch.env),
                  getattr(settings, "YOLO_CONFIDENCE_THRESHOLD", 50),
                  PathCall(image_path, batch.product_type))

C28_BatchOneEntryPerPath ==
    batch.made =>
        /\ Len(batch.results) = Len(batch.image_paths)
        /\ \A k \in 1..Len(batch.results) :
               /\ batch.results[k].image_path = batch.image_paths[k]
               /\ batch.results[k].batch_index = k
               /\ batch.results[k].total_images = Len(batch.image_paths)
               /\ batch.results[k].analysis = AnalysedAlone(batch.image_paths[k])
               /\ batch.image_paths[k] \in {"missing.jpg", "corrupt.jpg"}
                      => DOMAIN batch.results[k].analysis = {"error"}

\* C28 witness: a batch of three paths whose first cannot be read and whose
\* second raises in an analyzer: both entries hold an error, the third
\* holds a complete analysis.
C28_Witness ==
    /\ batch.made
    /\ batch.image_paths = <<"missing.jpg", "corrupt.jpg", "red.jpg">>
    /\ Len(batch.results) = 3
    /\ IsError(batch.results[1].analysis)
    /\ IsError(batch.results[2].analysis)
    /\ "overall_score" \in DOMAIN batch.results[3].analysis
    /\ batch.results[3].batch_index = 3

(***************************************************************************)
(* C29.  After any sequence of refund_payment calls on a payment,          *)
(* refunded_amount never exceeds the payment's amount; a request exceeding *)
(* the remaining refundable amount is rejected, creates no Refund record   *)
(* and leaves refunded_amount and status unchanged; status is 'refunded'   *)
(* exactly when refunded_amount has reached amount, and                    *)
(* 'partially_refunded' after any smaller accepted refund.                 *)
(***************************************************************************)
\* The last call asked for more than was left to refund.
ExceedingRequest ==
    /\ refund_call.made
    /\ RefundAmount(refund_call.before, refund_call.amount)
           > refund_call.before.amount - refund_call.before.refunded_amount

\* The last call was accepted: it added a Refund record.
RefundAccepted ==
    /\ refund_call.made
    /\ Len(payment.refunds) > Len(refund_call.before.refunds)

C29_RefundsNeverExceedAmount ==
    /\ payment.refunded_amount <= payment.amount
    /\ payment.saved.refunded_amount <= payment.amount
    /\ ExceedingRequest =>
           /\ refund_call.returns.success = FALSE
           /\ payment.refunds = refund_call.before.refunds
           /\ payment.refunded_amount = refund_call.before.refunded_amount
           /\ payment.status = refund_call.before.status
           /\ payment.saved = refund_call.before.saved
    /\ payment.status = "refunded" <=> payment.refunded_amount >= payment.amount
    /\ payment.saved.status = "refunded"
           <=> payment.saved.refunded_amount >= payment.amount
    /\ (RefundAccepted /\ payment.refunded_amount < payment.amount)
           => payment.status = "partially_refunded"

\* C29 witness: after a partial refund the rest was refunded and the payment
\* is 'refunded'; the call after that asked for one more cent and was
\* rejected.
C29_Witness ==
    /\ ExceedingRequest
    /\ Len(payment.refunds) = 2
    /\ payment.refunds[1].amount \in 1..(payment.amount - 1)
    /\ payment.refunded_amount = payment.amount
    /\ payment.status = "refunded"
    /\ refund_call.amount = Decimal(1)
    /\ refund_call.returns.success = FALSE

(***************************************************************************)
(* C30.  After any sequence of reserve_stock, release_stock and            *)
(* process_sale calls on an inventory item, reserved_stock is never        *)
(* negative, available_stock equals current_stock minus reserved_stock,    *)
(* and a reserve or release that returns False leaves the stock figures    *)
(* unchanged and records no stock movement.                                *)
(***************************************************************************)
C30_ReservedStockNeverNegative ==
    inventory.exists =>
        /\ inventory.item.reserved_stock >= 0
        /\ inventory.item.available_stock
               = inventory.item.current_stock - inventory.item.reserved_stock
        /\ ( /\ inventory.last.made
             /\ inventory.last.service \in {"reserve_stock", "release_stock"}
             /\ ~inventory.last.returns )
           => /\ inventory.item = inventory.last.before.item
              /\ inventory.movements = inventory.last.before.movements

=============================================================================
